---------------------------- MODULE Spec2Model ----------------------------
(***************************************************************************)
(* The e-commerce product-URL crawler (chinnasivakrishna/shoppin).         *)
(*                                                                         *)
(* The repository holds three crawler programs:                            *)
(*   "workers"    index.js:1-126 and unnamed/part_000: crawlDomains spawns *)
(*                one worker thread per domain, each running the queue     *)
(*                based crawlDomain;                                       *)
(*   "parallel"   index.js:128-360: class EcommerceCrawler, all domains    *)
(*                started at once (Promise.all), recursive processUrl;     *)
(*   "sequential" server.js: class EcommerceCrawler, one domain after the  *)
(*                other, content verification, failed-URL report.          *)
(* A behaviour of the model is a run of one of them (variable program).    *)
(*                                                                         *)
(* Strings are sequences of tokens (a token is a piece of text that the    *)
(* code never splits: a scheme, a host label, a separator, a path          *)
(* segment).  includes / startsWith / endsWith are the contiguous          *)
(* subsequence tests on these sequences.                                   *)
(***************************************************************************)
EXTENDS Naturals, Integers, Sequences, FiniteSets, TLC

-----------------------------------------------------------------------------
(* Bounds of the model *)

\* Length of the chain of category pages /cat/1 -> /cat/2 -> ... of shop.com.
ChainLen == 5

\* At most this many environment failures (a fetch, a navigation or a
\* renderer call that throws) happen in one run.
MaxFailures == 1

\* crawl() is called at most this many times on one EcommerceCrawler instance.
MaxRuns == 2

\* document.body.scrollHeight is measured as one of 1..MaxHeight.
MaxHeight == 3

\* A run of the file as a script is followed up to this many threads, the
\* main thread included.
MaxThreads == 9

-----------------------------------------------------------------------------
(* Strings *)

Includes(s, t) ==
    \E i \in 0..(Len(s) - Len(t)) : SubSeq(s, i + 1, i + Len(t)) = t

StartsWith(s, t) == Len(s) >= Len(t) /\ SubSeq(s, 1, Len(t)) = t

EndsWith(s, t) ==
    Len(s) >= Len(t) /\ SubSeq(s, Len(s) - Len(t) + 1, Len(s)) = t

Range(s) == {s[i] : i \in 1..Len(s)}

\* The elements of sequence s in order, each kept at its first place only
\* (insertion order of a JavaScript Set).
RECURSIVE Dedup(_)
Dedup(s) ==
    IF s = <<>> THEN <<>>
    ELSE LET front == Dedup(SubSeq(s, 1, Len(s) - 1))
             last  == s[Len(s)]
         IN  IF last \in Range(front) THEN front ELSE Append(front, last)

\* Set.add on a Set kept in insertion order.
SetAdd(s, x) == IF x \in Range(s) THEN s ELSE Append(s, x)

-----------------------------------------------------------------------------
(* URLs: WHATWG URL (new URL(href, base).toString()) and the legacy        *)
(* url.parse(..).hostname, on token sequences                              *)

Schemes == {"https://", "http://"}
Delims  == {"/", "?", "#"}

IsAbsolute(h) == Len(h) > 0 /\ h[1] \in Schemes

\* Index of the first token of s at or after i that is in D; Len(s)+1 if none.
FirstIn(s, i, D) ==
    LET hits == {j \in i..Len(s) : s[j] \in D}
    IN  IF hits = {} THEN Len(s) + 1
        ELSE CHOOSE j \in hits : \A k \in hits : j <= k

HostOf(u) == SubSeq(u, 2, FirstIn(u, 2, Delims) - 1)
RestOf(u) == SubSeq(u, FirstIn(u, 2, Delims), Len(u))
OriginOf(u) == <<u[1]>> \o HostOf(u)

\* The path out, which ends with "/", without its last segment.
ParentPath(out) ==
    LET slashes == {j \in 1..(Len(out) - 1) : out[j] = "/"}
    IN  IF slashes = {} THEN out
        ELSE SubSeq(out, 1, CHOOSE j \in slashes : \A k \in slashes : k <= j)

\* The URL parser's handling of the "." and ".." segments of a path: a "."
\* segment is dropped, a ".." segment is dropped with the segment before it.
\* path is what is still to be read, out the path written so far.
RECURSIVE RemoveDotSegments(_, _)
RemoveDotSegments(path, out) ==
    IF path = <<>> THEN out
    ELSE LET rest   == Tail(path)
             after  == IF rest # <<>> /\ rest[1] = "/" THEN Tail(rest) ELSE rest
             single == /\ out # <<>> /\ out[Len(out)] = "/"
                       /\ (rest = <<>> \/ rest[1] = "/")
         IN  IF single /\ Head(path) = "." THEN RemoveDotSegments(after, out)
             ELSE IF single /\ Head(path) = ".."
                  THEN RemoveDotSegments(after, ParentPath(out))
             ELSE RemoveDotSegments(rest, Append(out, Head(path)))

\* Serialisation of an absolute URL: an empty path is written "/", the "."
\* and ".." segments of the path are resolved; the query and the fragment are
\* kept as they are.
Serialize(u) ==
    LET rest  == RestOf(u)
        whole == (IF rest = <<>> \/ rest[1] # "/" THEN <<"/">> ELSE <<>>) \o rest
        cut   == FirstIn(whole, 1, {"?", "#"})
    IN  OriginOf(u) \o RemoveDotSegments(SubSeq(whole, 1, cut - 1), <<>>)
                   \o SubSeq(whole, cut, Len(whole))

StripFragment(u) == SubSeq(u, 1, FirstIn(u, 1, {"#"}) - 1)

\* new URL(href, base) throws a TypeError exactly when this is false.
\* (base is always a valid absolute URL here.)
UrlParses(href, base) == IsAbsolute(href) => HostOf(href) # <<>>

\* new URL(href, base).toString(), for an href that parses.
URLToString(href, base) ==
    IF IsAbsolute(href) THEN Serialize(href)
    ELSE IF href = <<>> THEN StripFragment(Serialize(base))
    ELSE IF href[1] = "/" THEN Serialize(OriginOf(base) \o href)
    ELSE IF href[1] = "#" THEN StripFragment(Serialize(base)) \o href
    ELSE LET b    == StripFragment(Serialize(base))
             path == SubSeq(b, 1, FirstIn(b, 1, {"?"}) - 1)
             lastSlash == CHOOSE j \in 1..Len(path) :
                            /\ path[j] = "/"
                            /\ \A k \in (j + 1)..Len(path) : path[k] # "/"
         IN  Serialize(SubSeq(path, 1, lastSlash) \o href)

-----------------------------------------------------------------------------
(* The web the crawlers run against: a static link graph *)

Www(host)  == <<"https://", "www.", host>>
Shop(path) == Www("shop.com") \o path
Bsite(path) == Www("b.com") \o path

Product(n) == <<"/", "product", "/", n>>
Cat(n)     == <<"/", "cat", "/", n>>

\* An absolute URL on another host that carries the shop's address in its query.
EvilUrl == <<"https://", "evil.com", "/", "?", "https://", "www.", "shop.com">>

\* An href that new URL() rejects (a scheme with no host).
BadHref == <<"http://">>

\* The hrefs of the <a> elements of the page at canonical URL u, in document
\* order; <<>> for a page without links.
HomeLinks ==
    << Product("1"),                 \* site-relative product link
       Shop(Product("2")),           \* absolute product link
       Cat("1"),                     \* category page, site-relative ...
       Shop(Cat("1")),               \* ... and the same page, absolute
       Shop(<<"/", "#", "top">>),    \* the home page again, with a fragment
       EvilUrl >>

CatLinks(k) ==
    (IF k < ChainLen THEN << Cat(ToString(k + 1)) >> ELSE <<>>)
    \o << Shop(Product(ToString(k + 2))) >>
    \o (IF k = 1 THEN << <<"/">> >> ELSE <<>>)      \* back to the home page

\* The home page of s.com: more absolute links than server.js examines per page.
Ssite(path) == Www("s.com") \o path
SHomeLinks ==
    << Ssite(Product("1")),                                  \* a product link ...
       Ssite(Product("1")),                                  \* ... twice on the page
       Product("2"),                                         \* site-relative
       <<"https://", "evil.com", "/", "product", "/", "1">>, \* another shop's product
       Ssite(<<"/", "shoe", "-p-", "12345">>),
       Ssite(Cat("1")),
       Ssite(<<"/", "item", "/", "6">>) >>

\* The home page of b.com; its last href names the page /more by a path with
\* a ".." segment.
BHomeLinks ==
    << Bsite(<<"/", "item", "/", "7">>),
       <<"/", "more">>,
       Bsite(<<"/", "product", "/", "..", "/", "more">>) >>

PageLinks(u) ==
    IF u = Shop(<<"/">>) THEN HomeLinks
    ELSE IF \E k \in 1..ChainLen : u = Shop(Cat(ToString(k)))
         THEN CatLinks(CHOOSE k \in 1..ChainLen : u = Shop(Cat(ToString(k))))
    ELSE IF u = Shop(Product("1")) THEN << Shop(Product("9")), Shop(Cat("2")) >>
    ELSE IF u = Bsite(<<"/">>) THEN BHomeLinks
    ELSE IF u = Bsite(<<"/", "more">>) THEN << Bsite(<<"/", "p", "/", "8">>), BadHref >>
    ELSE IF u = Ssite(<<"/">>) THEN SHomeLinks
    ELSE <<>>

\* The page a request for url is answered with: the server ignores the
\* fragment, and an empty path is the home page.
Canonical(url) == StripFragment(Serialize(url))


-----------------------------------------------------------------------------
(* Inputs *)

\* crawlDomain(domain, maxDepth = 3)
DefaultMaxDepth == 3

\* The domain lists handed to crawlDomains: full base URLs, written without
\* (index.js:123) or with (part_000:108) the trailing slash.
ShopDomain == Www("shop.com")
BDomain    == Bsite(<<"/">>)
WorkerDomainLists ==
    { <<>>, <<ShopDomain>>, <<BDomain>>, <<ShopDomain, BDomain>>, <<BDomain, BDomain>> }

VARIABLES
    program,      \* "workers", "parallel" or "sequential"
    domains,      \* the configured domain list
    failures,     \* environment failures so far
    mpc,          \* crawlDomains: "start", "waiting", "resolved"
    worker,       \* per domain: the worker thread running crawlDomain
    results,      \* crawlDomains: the results array
    completed,    \* crawlDomains: the completion counter
    resolveCalls, \* how often resolve(results) was called
    report,       \* what the promise resolved to
    cpc,          \* EcommerceCrawler.crawl: where it stands
    browserOpen,  \* the browser of crawl() is launched and not closed
    dom,          \* per domain: its crawlDomain call
    resultsMap,   \* this.results: Map domain -> Set of URLs
    failedUrls,   \* this.failedUrls: Map domain -> Set of URLs (server.js)
    visitedUrls,  \* this.visitedUrls
    resultFile,   \* crawler_results.json / result.json
    failedFile,   \* failed.json (server.js)
    lastVerify,   \* the last isValidProductPage call that returned (server.js)
    runs,         \* how often crawl() was called on the EcommerceCrawler instance
    scroll,       \* a call of handleInfiniteScroll
    dismiss,      \* a call of handleCookieConsent or handlePopups
    threads       \* the worker threads of a run of the file as a script

wvars == <<mpc, worker, results, completed, resolveCalls, report>>
cvars == <<cpc, browserOpen, dom, resultsMap, failedUrls, visitedUrls,
           resultFile, failedFile, lastVerify>>
vars  == <<program, domains, runs, scroll, dismiss, threads, failures, wvars, cvars>>

-----------------------------------------------------------------------------
(* index.js:1-126 and unnamed/part_000: crawlDomain in worker threads *)

ProductPatterns ==
    { <<"/", "product", "/">>, <<"/", "item", "/">>, <<"/", "p", "/">> }

IsValidProductURL(href, baseDomain) ==
    /\ \E pattern \in ProductPatterns : Includes(href, pattern)
    /\ Includes(href, baseDomain)

\* The product links of a page, as absolute URLs, in first-occurrence order.
\* (An href that passes isValidProductURL contains the base URL; new URL does
\* not throw on the hrefs of this web that do.)
ExtractProductURLs(html, baseDomain) ==
    LET keep == SelectSeq(html, LAMBDA href :
                    href # <<>> /\ IsValidProductURL(href, baseDomain))
    IN  Dedup([k \in 1..Len(keep) |-> URLToString(keep[k], baseDomain)])

\* Faulty variant of Shift: queue.pop() in place of queue.shift().
ShiftFromTheEnd(queue) ==
    [entry |-> queue[Len(queue)], rest |-> SubSeq(queue, 1, Len(queue) - 1)]

\* const { url, depth } = queue.shift();
Shift(queue) == [entry |-> Head(queue), rest |-> Tail(queue)]

\* Faulty variants of ShouldSkip: the visited test, or the depth test, left out.
ShouldSkipDepthOnly(url, depth, visited, maxDepth) == depth > maxDepth
ShouldSkipVisitedOnly(url, depth, visited, maxDepth) == url \in visited

\* if (visited.has(url) || depth > maxDepth) continue;
ShouldSkip(url, depth, visited, maxDepth) ==
    url \in visited \/ depth > maxDepth

\* if (!visited.has(absoluteURL) && absoluteURL.includes(domain)) queue.push(..)
ShouldPush(absoluteURL, visited, domain) ==
    absoluteURL \notin visited /\ Includes(absoluteURL, domain)

\* The $('a[href]').each(..) loop over the hrefs from the k-th on: the queue
\* after it, and whether new URL(href, domain) threw on the way (the pushes
\* made before the throw stay).
RECURSIVE PushLinks(_, _, _, _, _, _)
PushLinks(html, k, queue, visited, domain, depth) ==
    IF k > Len(html) THEN [queue |-> queue, threw |-> FALSE]
    ELSE IF ~UrlParses(html[k], domain) THEN [queue |-> queue, threw |-> TRUE]
    ELSE LET absoluteURL == URLToString(html[k], domain)
         IN  PushLinks(html, k + 1,
                       IF ShouldPush(absoluteURL, visited, domain)
                       THEN Append(queue, [url |-> absoluteURL, depth |-> depth + 1])
                       ELSE queue,
                       visited, domain, depth)

\* A worker right after new Worker(__filename, {workerData: {domain}}): the
\* thread has entered crawlDomain(domain).  fetchLog and pushLog record what
\* the crawl fetched (with the depth) and pushed onto the queue.
NewWorker(domain) ==
    [ pc          |-> "loop",
      domain      |-> domain,
      visited     |-> {},
      queue       |-> << [url |-> domain, depth |-> 0] >>,
      productURLs |-> <<>>,
      cur         |-> [url |-> domain, depth |-> 0],
      fetchLog    |-> <<>>,
      pushLog     |-> << domain >>,
      skipped     |-> <<>>,
      fetchFailed |-> {},
      attempt      |-> 0,      \* fetchHTML: the loop counter i
      openBrowsers |-> 0 ]     \* browsers this thread launched and has not closed

\* domains.forEach(domain => new Worker(..)); with no domain nothing is
\* spawned and no handler is ever registered.
W_Spawn ==
    /\ program = "workers" /\ mpc = "start"
    /\ worker' = [i \in 1..Len(domains) |-> NewWorker(domains[i])]
    /\ mpc' = "waiting"
    /\ UNCHANGED <<program, domains, runs, scroll, dismiss, threads, failures, results, completed, resolveCalls, report, cvars>>

\* const {url, depth} = queue.shift(); the visited / depth test; visited.add
W_Dequeue(i) ==
    /\ program = "workers" /\ mpc # "start"
    /\ worker[i].pc = "loop" /\ worker[i].queue # <<>>
    /\ LET w     == worker[i]
           entry == Shift(w.queue).entry
           rest  == Shift(w.queue).rest
       IN  IF ShouldSkip(entry.url, entry.depth, w.visited, DefaultMaxDepth)
           THEN worker' = [worker EXCEPT ![i].queue = rest,
                                         ![i].skipped = Append(w.skipped, entry)]
           ELSE worker' = [worker EXCEPT ![i].queue = rest,
                                         ![i].visited = w.visited \cup {entry.url},
                                         ![i].cur = entry,
                                         ![i].fetchLog = Append(w.fetchLog, entry),
                                         ![i].pc = "fetch"]
    /\ UNCHANGED <<program, domains, runs, scroll, dismiss, threads, failures, mpc, results, completed, resolveCalls, report, cvars>>

\* async function fetchHTML(url, retries = 3)
Retries == 3

\* An attempt of fetchHTML throws: the catch block logs the error and the loop
\* goes on.  browser.close() is on the success path only, so a browser that
\* was launched before the error (launched: the error came from newPage,
\* setUserAgent, goto or content, not from puppeteer.launch) stays open.
\* The failures of one fetchHTML call count as one environment failure.
AfterFailedAttempt(w, launched) ==
    [w EXCEPT !.attempt = w.attempt + 1,
              !.openBrowsers = IF launched THEN w.openBrowsers + 1 ELSE w.openBrowsers]

W_AttemptFails(i) ==
    /\ program = "workers" /\ mpc # "start"
    /\ worker[i].pc = "fetch"
    /\ worker[i].attempt < Retries - 1
    /\ IF worker[i].attempt = 0
       THEN failures < MaxFailures /\ failures' = failures + 1
       ELSE UNCHANGED failures
    /\ \E launched \in BOOLEAN :
          worker' = [worker EXCEPT ![i] = AfterFailedAttempt(worker[i], launched)]
    /\ UNCHANGED <<program, domains, runs, scroll, dismiss, threads, mpc, results, completed, resolveCalls, report, cvars>>

\* The last attempt throws too: fetchHTML returns null, and crawlDomain goes
\* to the next queue entry: if (!html) continue;
W_FetchFails(i) ==
    /\ program = "workers" /\ mpc # "start"
    /\ worker[i].pc = "fetch"
    /\ worker[i].attempt = Retries - 1
    /\ \E launched \in BOOLEAN :
          worker' = [worker EXCEPT
                       ![i] = [AfterFailedAttempt(worker[i], launched) EXCEPT
                                 !.attempt = 0,
                                 !.pc = "loop",
                                 !.fetchFailed = @ \cup {worker[i].cur.url}]]
    /\ UNCHANGED <<program, domains, runs, scroll, dismiss, threads, failures, mpc, results, completed, resolveCalls, report, cvars>>

\* An attempt of fetchHTML works (the browser is launched, the page read, the
\* browser closed) and fetchHTML returns the page: product links are
\* collected, then every link is resolved and pushed; a TypeError of new URL
\* leaves crawlDomain.
W_FetchOk(i) ==
    /\ program = "workers" /\ mpc # "start"
    /\ worker[i].pc = "fetch"
    /\ LET w      == worker[i]
           html   == PageLinks(Canonical(w.cur.url))
           found  == ExtractProductURLs(html, w.domain)
           prods  == Dedup(w.productURLs \o found)
           pushed == PushLinks(html, 1, w.queue, w.visited, w.domain, w.cur.depth)
           added  == SubSeq(pushed.queue, Len(w.queue) + 1, Len(pushed.queue))
       IN  worker' = [worker EXCEPT
                        ![i].productURLs = prods,
                        ![i].attempt = 0,
                        ![i].queue = pushed.queue,
                        ![i].pushLog = w.pushLog \o [k \in 1..Len(added) |-> added[k].url],
                        ![i].pc = IF pushed.threw THEN "threw" ELSE "loop"]
    /\ UNCHANGED <<program, domains, runs, scroll, dismiss, threads, failures, mpc, results, completed, resolveCalls, report, cvars>>

\* The queue is empty: crawlDomain returns and the worker posts
\* {domain, results}.
W_Return(i) ==
    /\ program = "workers" /\ mpc # "start"
    /\ worker[i].pc = "loop" /\ worker[i].queue = <<>>
    /\ worker' = [worker EXCEPT ![i].pc = "posted"]
    /\ UNCHANGED <<program, domains, runs, scroll, dismiss, threads, failures, mpc, results, completed, resolveCalls, report, cvars>>

\* crawlDomain rejected inside the worker's async function, which nothing
\* awaits: the unhandled rejection either ends the thread with an 'error'
\* event (Node 15 and later) or only prints a warning, the thread then ending
\* without any message (Node 14, which the README allows).
W_Crash(i) ==
    /\ program = "workers" /\ mpc # "start"
    /\ worker[i].pc = "threw"
    /\ \E outcome \in {"error", "exited"} :
          worker' = [worker EXCEPT ![i].pc = outcome]
    /\ UNCHANGED <<program, domains, runs, scroll, dismiss, threads, failures, mpc, results, completed, resolveCalls, report, cvars>>

\* Faulty variant of CompletionReached: resolve at the first report.
CompletionAtFirstReport(n, total) == n >= 1

\* if (completed === domains.length) resolve(results);
CompletionReached(n, total) == n = total

\* worker.on('message', message => {results.push(message); completed++; ..})
M_OnMessage(i) ==
    /\ program = "workers" /\ mpc # "start"
    /\ worker[i].pc = "posted"
    /\ LET message == [domain |-> worker[i].domain, results |-> worker[i].productURLs]
           done    == CompletionReached(completed + 1, Len(domains))
       IN  /\ results' = Append(results, message)
           /\ completed' = completed + 1
           /\ resolveCalls' = IF done THEN resolveCalls + 1 ELSE resolveCalls
           /\ report' = IF done /\ resolveCalls = 0 THEN Append(results, message) ELSE report
           /\ mpc' = IF done THEN "resolved" ELSE mpc
    /\ worker' = [worker EXCEPT ![i].pc = "reported"]
    /\ UNCHANGED <<program, domains, runs, scroll, dismiss, threads, failures, cvars>>

\* worker.on('error', err => {console.error(..); completed++; ..})
M_OnError(i) ==
    /\ program = "workers" /\ mpc # "start"
    /\ worker[i].pc = "error"
    /\ LET done == CompletionReached(completed + 1, Len(domains))
       IN  /\ completed' = completed + 1
           /\ resolveCalls' = IF done THEN resolveCalls + 1 ELSE resolveCalls
           /\ report' = IF done /\ resolveCalls = 0 THEN results ELSE report
           /\ mpc' = IF done THEN "resolved" ELSE mpc
    /\ worker' = [worker EXCEPT ![i].pc = "failed"]
    /\ UNCHANGED <<program, domains, runs, scroll, dismiss, threads, failures, results, cvars>>

WorkersNext ==
    \/ W_Spawn
    \/ \E i \in 1..Len(worker) : W_Dequeue(i)
    \/ \E i \in 1..Len(worker) : W_AttemptFails(i)
    \/ \E i \in 1..Len(worker) : W_FetchFails(i)
    \/ \E i \in 1..Len(worker) : W_FetchOk(i)
    \/ \E i \in 1..Len(worker) : W_Return(i)
    \/ \E i \in 1..Len(worker) : W_Crash(i)
    \/ \E i \in 1..Len(worker) : M_OnMessage(i)
    \/ \E i \in 1..Len(worker) : M_OnError(i)

-----------------------------------------------------------------------------
(* class EcommerceCrawler: what index.js:128-360 and server.js share *)

\* A JavaScript Map, in insertion order: a sequence of [key, val] entries.
MapHas(m, k) == \E j \in 1..Len(m) : m[j].key = k
MapGet(m, k) == m[CHOOSE j \in 1..Len(m) : m[j].key = k].val
MapSet(m, k, v) ==
    IF MapHas(m, k)
    THEN [j \in 1..Len(m) |-> IF m[j].key = k THEN [key |-> k, val |-> v] ELSE m[j]]
    ELSE Append(m, [key |-> k, val |-> v])
\* m.get(k).add(x)
MapAdd(m, k, x) == MapSet(m, k, SetAdd(MapGet(m, k), x))

\* An output file: not written, or written once with what was built in memory.
NotWritten == [written |-> FALSE, content |-> <<>>]
Written(content) == [written |-> TRUE, content |-> content]

\* domain.replace(/^(https?:\/\/)?(www\.)?/, '')
NormalizeDomain(d) ==
    LET a == IF d # <<>> /\ d[1] \in Schemes THEN Tail(d) ELSE d
    IN  IF a # <<>> /\ a[1] = "www." THEN Tail(a) ELSE a

\* The domain lists given to the constructor.
RawDomainLists ==
    { << <<"shop.com">> >>,
      << <<"shop.com">>, <<"https://", "www.", "b.com">> >>,
      << <<"s.com">>, <<"b.com">> >>,
      << <<"b.com">>, <<"www.", "b.com">> >>,
      << <<"e.com">>, <<"b.com">> >> }        \* e.com: a home page without links

ConstructedDomains(raw) == [j \in 1..Len(raw) |-> NormalizeDomain(raw[j])]

\* const baseUrl = `https://www.${domain}`;
BaseUrl(domain) == <<"https://", "www.">> \o domain

\* url.parse(url).hostname.replace(/^www\./, ''); <<"null">> stands for the
\* TypeError that .replace on a null hostname raises.
Hostname(url) ==
    IF ~IsAbsolute(url) THEN <<"null">>
    ELSE LET h == HostOf(url)
         IN  IF h # <<>> /\ h[1] = "www." THEN Tail(h) ELSE h

IsSameDomain(url, domain) ==
    LET hostname == Hostname(url)
    IN  /\ hostname # <<"null">>
        /\ (hostname = domain \/ EndsWith(hostname, <<".">> \o domain))

\* a.href as the browser reports it: resolved against the document's URL; an
\* href that is no valid URL is reported as written.
BrowserHref(href, docUrl) ==
    IF UrlParses(href, docUrl) THEN URLToString(href, docUrl) ELSE href

\* href && href.startsWith('http')
StartsWithHttp(href) == href # <<>> /\ href[1] \in Schemes

\* processUrl entered although the URL is in visitedUrls.
NeverVisited(url, visited) == FALSE

\* processUrl: if (this.visitedUrls.has(url)) return;
AlreadyVisited(url, visited) == url \in visited

SignalKeys ==
    <<"price", "addToCart", "productTitle", "productImage", "buyButton", "metadata">>

\* The state of one crawlDomain(browser, domain) call before it has run.
NewDomainCrawl(domain, pc) ==
    [ pc         |-> pc,
      domain     |-> domain,
      pageOpen   |-> FALSE,
      stack      |-> <<>>,      \* the processUrl calls in progress
      fetchLog   |-> <<>>,      \* the URLs processUrl navigated to, with depth
      navFailed  |-> {},        \* the URLs whose navigation threw
      sinceDelay |-> 0 ]        \* page.goto calls issued since the last randomized delay

\* No isValidProductPage call has returned yet.
NoVerify ==
    [ n |-> 0, domain |-> <<>>, link |-> <<>>, navOk |-> FALSE, verdict |-> FALSE,
      signals |-> [k \in Range(SignalKeys) |-> FALSE],
      metBefore |-> FALSE ]

\* An environment call either works or throws; once the browser is closed
\* every call on it throws.
MayWork == browserOpen
MayThrow == ~browserOpen \/ failures < MaxFailures
Throw == failures' = IF browserOpen THEN failures + 1 ELSE failures

-----------------------------------------------------------------------------
(* index.js:128-360: EcommerceCrawler with Promise.all and a recursive     *)
(* processUrl                                                              *)

IndexPatterns ==
    { <<"/", "product", "/">>, <<"/", "item", "/">>, <<"/", "p", "/">>,
      <<"/", "products", "/">>, <<"/", "pd", "/">>, <<"-p-">>,
      <<"/", "dp", "/">>, <<"/", "catalog", "/">>, <<"/", "shop", "/">>,
      <<"/", "detail", "/">>, <<"/", "goods", "/">>, <<"/", "listing", "/">> }

P_IsProductUrl(url) == \E pattern \in IndexPatterns : Includes(url, pattern)

\* page.evaluate(() => Array.from(document.querySelectorAll('a'))
\*                       .map(a => a.href).filter(href => href && href.startsWith('http')))
P_Links(url) ==
    LET html == PageLinks(Canonical(url))
    IN  SelectSeq([k \in 1..Len(html) |-> BrowserHref(html[k], url)], StartsWithHttp)

\* processUrl from the point where it is resumed to its next await: the
\* for-loop over the links of the frame on top of the stack goes on; a product
\* link is added to the domain's result set, a call of processUrl on an
\* unvisited in-scope link marks it visited and suspends at its navigation
\* (a new frame), and a processUrl whose loop has ended returns to its
\* caller.  st is [stack, visited, res, log].
RECURSIVE P_Resume(_, _)
P_Resume(st, domain) ==
    IF st.stack = <<>> THEN st
    ELSE LET n   == Len(st.stack)
             top == st.stack[n]
         IN  IF top.idx > Len(top.links)
             THEN P_Resume([st EXCEPT !.stack = SubSeq(st.stack, 1, n - 1)], domain)
             ELSE LET link == top.links[top.idx]
                      adv  == [st.stack EXCEPT ![n].idx = top.idx + 1]
                  IN  IF P_IsProductUrl(link) /\ IsSameDomain(link, domain)
                      THEN P_Resume([st EXCEPT !.stack = adv,
                                               !.res = MapAdd(st.res, domain, link)],
                                    domain)
                      ELSE IF IsSameDomain(link, domain) /\ link \notin st.visited
                      THEN [st EXCEPT
                              !.stack = Append(adv, [url |-> link, depth |-> top.depth + 1,
                                                     links |-> <<>>, idx |-> 1,
                                                     loaded |-> FALSE]),
                              !.visited = st.visited \cup {link},
                              !.log = Append(st.log, [url |-> link, depth |-> top.depth + 1])]
                      ELSE P_Resume([st EXCEPT !.stack = adv], domain)

\* const browser = await puppeteer.launch(..); this.domains.map(domain =>
\* this.crawlDomain(browser, domain)): every crawlDomain runs up to its
\* await browser.newPage().
P_Launch ==
    /\ program = "parallel" /\ cpc = "start"
    /\ browserOpen' = TRUE
    /\ dom' = [i \in 1..Len(domains) |-> NewDomainCrawl(domains[i], "newPage")]
    /\ cpc' = "awaitAll"
    /\ runs' = runs + 1
    /\ UNCHANGED <<lastVerify, program, domains, scroll, dismiss, threads, failures, wvars, resultsMap, failedUrls,
                   visitedUrls, resultFile, failedFile>>

P_NewPageOk(i) ==
    /\ program = "parallel" /\ dom[i].pc = "newPage" /\ MayWork
    /\ dom' = [dom EXCEPT ![i].pc = "setup", ![i].pageOpen = TRUE]
    /\ UNCHANGED <<lastVerify, program, domains, runs, scroll, dismiss, threads, failures, wvars, cpc, browserOpen, resultsMap,
                   failedUrls, visitedUrls, resultFile, failedFile>>

\* browser.newPage() throws outside the try: crawlDomain rejects.
P_NewPageThrows(i) ==
    /\ program = "parallel" /\ dom[i].pc = "newPage" /\ MayThrow
    /\ Throw
    /\ dom' = [dom EXCEPT ![i].pc = "rejected"]
    /\ UNCHANGED <<lastVerify, program, domains, runs, scroll, dismiss, threads, wvars, cpc, browserOpen, resultsMap,
                   failedUrls, visitedUrls, resultFile, failedFile>>

\* The page is configured; this.results.set(domain, new Set()); processUrl is
\* called on the base URL and runs to its navigation, or returns at once if
\* the URL is already in visitedUrls.
P_SetupOk(i) ==
    /\ program = "parallel" /\ dom[i].pc = "setup" /\ MayWork
    /\ LET d       == dom[i].domain
           baseUrl == BaseUrl(d)
       IN  /\ resultsMap' = MapSet(resultsMap, d, <<>>)
           /\ IF AlreadyVisited(baseUrl, visitedUrls)
              THEN /\ dom' = [dom EXCEPT ![i].pc = "closing"]
                   /\ UNCHANGED visitedUrls
              ELSE /\ visitedUrls' = visitedUrls \cup {baseUrl}
                   /\ dom' = [dom EXCEPT
                                ![i].pc = "goto",
                                ![i].stack = << [url |-> baseUrl, depth |-> 0,
                                                 links |-> <<>>, idx |-> 1,
                                                 loaded |-> FALSE] >>,
                                ![i].fetchLog = << [url |-> baseUrl, depth |-> 0] >>]
    /\ UNCHANGED <<lastVerify, program, domains, runs, scroll, dismiss, threads, failures, wvars, cpc, browserOpen,
                   failedUrls, resultFile, failedFile>>

\* setDefaultTimeout / setRequestInterception throws: caught and logged by
\* crawlDomain, before the domain is registered in this.results.
P_SetupThrows(i) ==
    /\ program = "parallel" /\ dom[i].pc = "setup" /\ MayThrow
    /\ Throw
    /\ dom' = [dom EXCEPT ![i].pc = "closing"]
    /\ UNCHANGED <<lastVerify, program, domains, runs, scroll, dismiss, threads, wvars, cpc, browserOpen, resultsMap,
                   failedUrls, visitedUrls, resultFile, failedFile>>

\* page.goto(url) of the processUrl on top of the stack worked: consent and
\* scrolling handled (both swallow their errors), the links read, the loop
\* run to the next navigation.
P_GotoOk(i) ==
    /\ program = "parallel" /\ dom[i].pc = "goto" /\ MayWork
    /\ LET d   == dom[i]
           n   == Len(d.stack)
           st0 == [ stack   |-> [d.stack EXCEPT ![n].links = P_Links(d.stack[n].url),
                                                ![n].loaded = TRUE],
                    visited |-> visitedUrls,
                    res     |-> resultsMap,
                    log     |-> d.fetchLog ]
           st  == P_Resume(st0, d.domain)
       IN  /\ dom' = [dom EXCEPT ![i].stack = st.stack,
                                 ![i].fetchLog = st.log,
                                 ![i].pc = IF st.stack = <<>> THEN "closing" ELSE "goto"]
           /\ visitedUrls' = st.visited
           /\ resultsMap' = st.res
    /\ UNCHANGED <<lastVerify, program, domains, runs, scroll, dismiss, threads, failures, wvars, cpc, browserOpen,
                   failedUrls, resultFile, failedFile>>

\* page.goto(url) threw: processUrl logs it and returns to its caller, whose
\* loop goes on.
P_GotoThrows(i) ==
    /\ program = "parallel" /\ dom[i].pc = "goto" /\ MayThrow
    /\ Throw
    /\ LET d   == dom[i]
           n   == Len(d.stack)
           st0 == [ stack   |-> SubSeq(d.stack, 1, n - 1),
                    visited |-> visitedUrls,
                    res     |-> resultsMap,
                    log     |-> d.fetchLog ]
           st  == P_Resume(st0, d.domain)
       IN  /\ dom' = [dom EXCEPT ![i].stack = st.stack,
                                 ![i].fetchLog = st.log,
                                 ![i].navFailed = @ \cup {d.stack[n].url},
                                 ![i].pc = IF st.stack = <<>> THEN "closing" ELSE "goto"]
           /\ visitedUrls' = st.visited
           /\ resultsMap' = st.res
    /\ UNCHANGED <<lastVerify, program, domains, runs, scroll, dismiss, threads, wvars, cpc, browserOpen,
                   failedUrls, resultFile, failedFile>>

\* finally { await page.close(); }
P_ClosePageOk(i) ==
    /\ program = "parallel" /\ dom[i].pc = "closing" /\ MayWork
    /\ dom' = [dom EXCEPT ![i].pc = "done", ![i].pageOpen = FALSE]
    /\ UNCHANGED <<lastVerify, program, domains, runs, scroll, dismiss, threads, failures, wvars, cpc, browserOpen, resultsMap,
                   failedUrls, visitedUrls, resultFile, failedFile>>

P_ClosePageThrows(i) ==
    /\ program = "parallel" /\ dom[i].pc = "closing" /\ MayThrow
    /\ Throw
    /\ dom' = [dom EXCEPT ![i].pc = "rejected"]
    /\ UNCHANGED <<lastVerify, program, domains, runs, scroll, dismiss, threads, wvars, cpc, browserOpen, resultsMap,
                   failedUrls, visitedUrls, resultFile, failedFile>>

\* await Promise.all(promises) is fulfilled once every crawlDomain is.
AllFulfilled(d) == \A i \in 1..Len(d) : d[i].pc = "done"

\* saveResults(): output[domain] = Array.from(urls) for every entry of
\* this.results, written to crawler_results.json.
P_SaveResults ==
    /\ program = "parallel" /\ cpc = "awaitAll"
    /\ AllFulfilled(dom)
    /\ resultFile' = Written(resultsMap)
    /\ cpc' = "saved"
    /\ UNCHANGED <<lastVerify, program, domains, runs, scroll, dismiss, threads, failures, wvars, browserOpen, dom, resultsMap,
                   failedUrls, visitedUrls, failedFile>>

\* Promise.all rejects as soon as one crawlDomain does; crawl() goes to its
\* finally block with the other crawls still running.
P_Rejected ==
    /\ program = "parallel" /\ cpc = "awaitAll"
    /\ \E i \in 1..Len(dom) : dom[i].pc = "rejected"
    /\ cpc' = "failing"
    /\ UNCHANGED <<lastVerify, program, domains, runs, scroll, dismiss, threads, failures, wvars, browserOpen, dom, resultsMap,
                   failedUrls, visitedUrls, resultFile, failedFile>>

\* finally { await browser.close(); }
P_CloseBrowser ==
    /\ program = "parallel" /\ cpc \in {"saved", "failing"}
    /\ browserOpen' = FALSE
    /\ cpc' = IF cpc = "saved" THEN "done" ELSE "rejected"
    /\ UNCHANGED <<lastVerify, program, domains, runs, scroll, dismiss, threads, failures, wvars, dom, resultsMap,
                   failedUrls, visitedUrls, resultFile, failedFile>>

\* crawler.crawl() is called again on the same instance after the call before
\* has returned: this.results and this.visitedUrls are those the first call
\* left.
P_CrawlAgain ==
    /\ program = "parallel" /\ cpc = "done"
    /\ runs < MaxRuns
    /\ cpc' = "start"
    /\ UNCHANGED <<lastVerify, program, domains, runs, scroll, dismiss, threads, failures, wvars, browserOpen, dom,
                   resultsMap, failedUrls, visitedUrls, resultFile, failedFile>>

ParallelNext ==
    \/ P_Launch
    \/ P_CrawlAgain
    \/ P_SaveResults
    \/ P_Rejected
    \/ P_CloseBrowser
    \/ \E i \in 1..Len(dom) : P_NewPageOk(i)
    \/ \E i \in 1..Len(dom) : P_NewPageThrows(i)
    \/ \E i \in 1..Len(dom) : P_SetupOk(i)
    \/ \E i \in 1..Len(dom) : P_SetupThrows(i)
    \/ \E i \in 1..Len(dom) : P_GotoOk(i)
    \/ \E i \in 1..Len(dom) : P_GotoThrows(i)
    \/ \E i \in 1..Len(dom) : P_ClosePageOk(i)
    \/ \E i \in 1..Len(dom) : P_ClosePageThrows(i)

-----------------------------------------------------------------------------
(* server.js: EcommerceCrawler, one domain after the other, with content   *)
(* verification                                                            *)

ServerPatterns ==
    IndexPatterns \cup
    { <<"/", "itm", "/">>, <<"/", "ip", "/">>, <<"/", "pl", "/">>,
      <<"/", "gp", "/">>, <<"/", "buy", "/">> }

IsProductUrl(url) == \E pattern \in ServerPatterns : Includes(url, pattern)

\* const maxLinksPerPage = 5;
MaxLinksPerPage == 5

\* $('a').map((_, el) => $(el).attr('href')).get()
\*       .filter(href => href && href.startsWith('http')).slice(0, maxLinksPerPage)
SelectedLinks(url) ==
    LET links == SelectSeq(PageLinks(Canonical(url)), StartsWithHttp)
    IN  SubSeq(links, 1, IF Len(links) < MaxLinksPerPage THEN Len(links) ELSE MaxLinksPerPage)

\* if (this.isProductUrl(link) && this.isSameDomain(link, domain))
IsCandidate(link, domain) == IsProductUrl(link) /\ IsSameDomain(link, domain)

\* Faulty variant of SelectorIsValidCss: querySelector accepts every selector.
AnySelectorIsValid(key) == TRUE

\* document.querySelector(selector) raises a SyntaxError on a selector that is
\* not valid CSS: the buyButton selector uses jQuery's :contains(), which no
\* browser's querySelector accepts.
SelectorIsValidCss(key) == key # "buyButton"

\* indicators.price && (indicators.addToCart || indicators.buyButton) &&
\* (indicators.productTitle || indicators.productImage || indicators.metadata)
VerificationPolicy(indicators) ==
    /\ indicators["price"]
    /\ (indicators["addToCart"] \/ indicators["buyButton"])
    /\ (indicators["productTitle"] \/ indicators["productImage"] \/ indicators["metadata"])

\* isValidProductPage(page, url): navOk says whether page.goto(url) worked,
\* signals what each selector would find in the rendered page.  An error of
\* the navigation or of page.evaluate is caught and answered with false.
IsValidProductPage(navOk, signals) ==
    IF ~navOk THEN FALSE
    ELSE IF \E k \in 1..Len(SignalKeys) : ~SelectorIsValidCss(SignalKeys[k]) THEN FALSE
    ELSE VerificationPolicy(signals)

\* The for-loop of processUrl from the idx-th selected link on, up to the next
\* link it verifies: the index of that link, or Len(links) + 1.
RECURSIVE NextCandidate(_, _, _)
NextCandidate(links, idx, domain) ==
    IF idx > Len(links) THEN idx
    ELSE IF IsCandidate(links[idx], domain) THEN idx
    ELSE NextCandidate(links, idx + 1, domain)

\* Faulty variant of FailedAfter: a link that fails verification is dropped.
FailedAfterDropped(failed, domain, link, verdict) == failed

\* Faulty variant of CatchProcessUrl: the error is only logged.
CatchOnlyLogs(failed, domain, url) == failed

\* Faulty variant of S_MayStart: crawlDomain is called without awaiting the call before.
S_MayStartWithoutAwait(d, i) ==
    /\ d[i].pc = "idle"
    /\ \A j \in 1..(i - 1) : d[j].pc # "idle"

\* if (await this.isValidProductPage(page, link)) this.results.get(domain).add(link);
\* else this.failedUrls.get(domain).add(link);
ResultsAfter(res, domain, link, verdict) ==
    IF verdict THEN MapAdd(res, domain, link) ELSE res
FailedAfter(failed, domain, link, verdict) ==
    IF verdict THEN failed ELSE MapAdd(failed, domain, link)

\* catch (error) { console.error(..); this.failedUrls.get(domain).add(url); }
CatchProcessUrl(failed, domain, url) == MapAdd(failed, domain, url)

\* for (const domain of this.domains) { await this.crawlDomain(browser, domain); .. }
\* crawlDomain is called on domain i once the calls before it have returned.
S_MayStart(d, i) ==
    /\ d[i].pc = "idle"
    /\ \A j \in 1..(i - 1) : d[j].pc = "done"

S_Launch ==
    /\ program = "sequential" /\ cpc = "start"
    /\ browserOpen' = TRUE
    /\ dom' = [i \in 1..Len(domains) |-> NewDomainCrawl(domains[i], "idle")]
    /\ cpc' = "loop"
    /\ runs' = runs + 1
    /\ UNCHANGED <<lastVerify, program, domains, scroll, dismiss, threads, failures, wvars, resultsMap, failedUrls,
                   visitedUrls, resultFile, failedFile>>

\* crawlDomain(browser, domain) is entered: await browser.newPage()
S_StartDomain(i) ==
    /\ program = "sequential" /\ cpc = "loop"
    /\ S_MayStart(dom, i)
    /\ dom' = [dom EXCEPT ![i].pc = "newPage"]
    /\ UNCHANGED <<lastVerify, program, domains, runs, scroll, dismiss, threads, failures, wvars, cpc, browserOpen, resultsMap,
                   failedUrls, visitedUrls, resultFile, failedFile>>

S_NewPageOk(i) ==
    /\ program = "sequential" /\ dom[i].pc = "newPage" /\ MayWork
    /\ dom' = [dom EXCEPT ![i].pc = "setup", ![i].pageOpen = TRUE]
    /\ UNCHANGED <<lastVerify, program, domains, runs, scroll, dismiss, threads, failures, wvars, cpc, browserOpen, resultsMap,
                   failedUrls, visitedUrls, resultFile, failedFile>>

\* browser.newPage() throws outside the try: crawlDomain rejects, and so does
\* the loop of crawl().
S_NewPageThrows(i) ==
    /\ program = "sequential" /\ dom[i].pc = "newPage" /\ MayThrow
    /\ Throw
    /\ dom' = [dom EXCEPT ![i].pc = "rejected"]
    /\ cpc' = "failing"
    /\ UNCHANGED <<lastVerify, program, domains, runs, scroll, dismiss, threads, wvars, browserOpen, resultsMap,
                   failedUrls, visitedUrls, resultFile, failedFile>>

\* await this.delay(3000 + Math.random() * 5000) has just returned.
AfterRandomDelay == 0

\* await page.goto(..) is issued.
AfterNavigation(sinceDelay) == sinceDelay + 1

\* The page is configured, the domain registered in this.results and
\* this.failedUrls, and processUrl called on the base URL: it returns at once
\* if the URL is in visitedUrls, and otherwise waits its randomized delay and
\* runs to its page.goto.
S_SetupOk(i) ==
    /\ program = "sequential" /\ dom[i].pc = "setup" /\ MayWork
    /\ LET d       == dom[i].domain
           baseUrl == BaseUrl(d)
       IN  /\ resultsMap' = MapSet(resultsMap, d, <<>>)
           /\ failedUrls' = MapSet(failedUrls, d, <<>>)
           /\ IF AlreadyVisited(baseUrl, visitedUrls)
              THEN /\ dom' = [dom EXCEPT ![i].pc = "closing"]
                   /\ UNCHANGED visitedUrls
              ELSE /\ visitedUrls' = visitedUrls \cup {baseUrl}
                   /\ dom' = [dom EXCEPT
                                ![i].pc = "goto",
                                ![i].stack = << [url |-> baseUrl, depth |-> 0,
                                                 links |-> <<>>, idx |-> 1,
                                                 loaded |-> FALSE] >>,
                                ![i].fetchLog = << [url |-> baseUrl, depth |-> 0] >>,
                                ![i].sinceDelay = AfterRandomDelay]
    /\ UNCHANGED <<lastVerify, program, domains, runs, scroll, dismiss, threads, failures, wvars, cpc, browserOpen,
                   resultFile, failedFile>>

\* A page.set..() call throws: caught and logged by crawlDomain, before the
\* domain is registered.
S_SetupThrows(i) ==
    /\ program = "sequential" /\ dom[i].pc = "setup" /\ MayThrow
    /\ Throw
    /\ dom' = [dom EXCEPT ![i].pc = "closing"]
    /\ UNCHANGED <<lastVerify, program, domains, runs, scroll, dismiss, threads, wvars, cpc, browserOpen, resultsMap,
                   failedUrls, visitedUrls, resultFile, failedFile>>

\* page.goto(url) worked; popups and scrolling handled (they swallow their
\* errors); the links are read and the loop runs to the first link it
\* verifies.
S_GotoOk(i) ==
    /\ program = "sequential" /\ dom[i].pc = "goto" /\ MayWork
    /\ LET d     == dom[i]
           links == SelectedLinks(d.stack[1].url)
           idx   == NextCandidate(links, 1, d.domain)
       IN  dom' = [dom EXCEPT
                     ![i].stack = IF idx > Len(links) THEN <<>>
                                  ELSE << [d.stack[1] EXCEPT !.links = links, !.idx = idx,
                                                             !.loaded = TRUE] >>,
                     ![i].sinceDelay = AfterNavigation(@),
                     ![i].pc = IF idx > Len(links) THEN "closing" ELSE "verify"]
    /\ UNCHANGED <<lastVerify, program, domains, runs, scroll, dismiss, threads, failures, wvars, cpc, browserOpen, resultsMap,
                   failedUrls, visitedUrls, resultFile, failedFile>>

\* page.goto(url) (or page.content()) threw:
\* catch (error) { ..; this.failedUrls.get(domain).add(url); }
S_GotoThrows(i) ==
    /\ program = "sequential" /\ dom[i].pc = "goto" /\ MayThrow
    /\ Throw
    /\ failedUrls' = CatchProcessUrl(failedUrls, dom[i].domain, dom[i].stack[1].url)
    /\ dom' = [dom EXCEPT ![i].stack = <<>>,
                          ![i].navFailed = @ \cup {dom[i].stack[1].url},
                          ![i].sinceDelay = AfterNavigation(@),
                          ![i].pc = "closing"]
    /\ UNCHANGED <<lastVerify, program, domains, runs, scroll, dismiss, threads, wvars, cpc, browserOpen, resultsMap,
                   visitedUrls, resultFile, failedFile>>

\* The call before this one verified the same link for the same domain (the
\* link is twice among the selected links of the page), and the page rendered
\* then, or at a call before that, had the signals the policy asks for.
MetBefore(last, domain, link) ==
    /\ last.n > 0 /\ last.domain = domain /\ last.link = link
    /\ \/ last.navOk /\ VerificationPolicy(last.signals)
       \/ last.metBefore

\* isValidProductPage(page, link) issues page.goto(link) as its first statement;
\* what processUrl does with the verdict on link, and on to the next link, and on to the next link.
S_Record(i, link, navOk, signals) ==
    LET d       == dom[i]
        top     == d.stack[1]
        verdict == IsValidProductPage(navOk, signals)
        idx     == NextCandidate(top.links, top.idx + 1, d.domain)
    IN  /\ resultsMap' = ResultsAfter(resultsMap, d.domain, link, verdict)
        /\ failedUrls' = FailedAfter(failedUrls, d.domain, link, verdict)
        /\ lastVerify' = [n |-> lastVerify.n + 1, domain |-> d.domain, link |-> link,
                          navOk |-> navOk, verdict |-> verdict, signals |-> signals,
                          metBefore |-> MetBefore(lastVerify, d.domain, link)]
        /\ dom' = [dom EXCEPT
                     ![i].navFailed = IF navOk THEN @ ELSE @ \cup {link},
                     ![i].sinceDelay = AfterNavigation(@),
                     ![i].stack = IF idx > Len(top.links) THEN <<>>
                                  ELSE << [top EXCEPT !.idx = idx] >>,
                     ![i].pc = IF idx > Len(top.links) THEN "closing" ELSE "verify"]

\* isValidProductPage(page, link): the navigation worked and the selectors
\* were evaluated on a page with these signals.
S_VerifyEvaluated(i) ==
    /\ program = "sequential" /\ dom[i].pc = "verify" /\ MayWork
    /\ \E signals \in [Range(SignalKeys) -> BOOLEAN] :
          S_Record(i, dom[i].stack[1].links[dom[i].stack[1].idx], TRUE, signals)
    /\ UNCHANGED <<program, domains, runs, scroll, dismiss, threads, failures, wvars, cpc, browserOpen,
                   visitedUrls, resultFile, failedFile>>

\* isValidProductPage(page, link): page.goto(link) threw.
S_VerifyNavThrows(i) ==
    /\ program = "sequential" /\ dom[i].pc = "verify" /\ MayThrow
    /\ Throw
    /\ S_Record(i, dom[i].stack[1].links[dom[i].stack[1].idx], FALSE,
                [k \in Range(SignalKeys) |-> FALSE])
    /\ UNCHANGED <<program, domains, runs, scroll, dismiss, threads, wvars, cpc, browserOpen,
                   visitedUrls, resultFile, failedFile>>

\* finally { await page.close(); }
S_ClosePageOk(i) ==
    /\ program = "sequential" /\ dom[i].pc = "closing" /\ MayWork
    /\ dom' = [dom EXCEPT ![i].pc = "done", ![i].pageOpen = FALSE]
    /\ UNCHANGED <<lastVerify, program, domains, runs, scroll, dismiss, threads, failures, wvars, cpc, browserOpen, resultsMap,
                   failedUrls, visitedUrls, resultFile, failedFile>>

S_ClosePageThrows(i) ==
    /\ program = "sequential" /\ dom[i].pc = "closing" /\ MayThrow
    /\ Throw
    /\ dom' = [dom EXCEPT ![i].pc = "rejected"]
    /\ cpc' = "failing"
    /\ UNCHANGED <<lastVerify, program, domains, runs, scroll, dismiss, threads, wvars, browserOpen, resultsMap,
                   failedUrls, visitedUrls, resultFile, failedFile>>

\* saveResults(): one {domain, productUrls} record per entry of this.results.
S_SaveResults ==
    /\ program = "sequential" /\ cpc = "loop"
    /\ AllFulfilled(dom)
    /\ resultFile' = Written(resultsMap)
    /\ cpc' = "saved"
    /\ UNCHANGED <<lastVerify, program, domains, runs, scroll, dismiss, threads, failures, wvars, browserOpen, dom, resultsMap,
                   failedUrls, visitedUrls, failedFile>>

\* for (const [domain, urls] of this.failedUrls)
\*     output.push({domain, failedUrls: Array.from(urls)});
FailedOutput(failed) ==
    [j \in 1..Len(failed) |-> [domain |-> failed[j].key, failedUrls |-> failed[j].val]]

\* failed.json written whatever the failed sets hold.
ShouldWriteFailedAlways(output) == TRUE

\* if (output.some(item => item.failedUrls.length > 0))
ShouldWriteFailed(output) ==
    \E j \in 1..Len(output) : Len(output[j].failedUrls) > 0

\* saveFailedUrls(): failed.json is written only if some domain has a failed URL.
S_SaveFailedUrls ==
    /\ program = "sequential" /\ cpc = "saved"
    /\ LET output == FailedOutput(failedUrls)
       IN  failedFile' = IF ShouldWriteFailed(output) THEN Written(output) ELSE failedFile
    /\ cpc' = "savedFailed"
    /\ UNCHANGED <<lastVerify, program, domains, runs, scroll, dismiss, threads, failures, wvars, browserOpen, dom, resultsMap,
                   failedUrls, visitedUrls, resultFile>>

\* finally { await browser.close(); }
S_CloseBrowser ==
    /\ program = "sequential" /\ cpc \in {"savedFailed", "failing"}
    /\ browserOpen' = FALSE
    /\ cpc' = IF cpc = "savedFailed" THEN "done" ELSE "rejected"
    /\ UNCHANGED <<lastVerify, program, domains, runs, scroll, dismiss, threads, failures, wvars, dom, resultsMap,
                   failedUrls, visitedUrls, resultFile, failedFile>>

SequentialNext ==
    \/ S_Launch
    \/ S_SaveResults
    \/ S_SaveFailedUrls
    \/ S_CloseBrowser
    \/ \E i \in 1..Len(dom) : S_StartDomain(i)
    \/ \E i \in 1..Len(dom) : S_NewPageOk(i)
    \/ \E i \in 1..Len(dom) : S_NewPageThrows(i)
    \/ \E i \in 1..Len(dom) : S_SetupOk(i)
    \/ \E i \in 1..Len(dom) : S_SetupThrows(i)
    \/ \E i \in 1..Len(dom) : S_GotoOk(i)
    \/ \E i \in 1..Len(dom) : S_GotoThrows(i)
    \/ \E i \in 1..Len(dom) : S_VerifyEvaluated(i)
    \/ \E i \in 1..Len(dom) : S_VerifyNavThrows(i)
    \/ \E i \in 1..Len(dom) : S_ClosePageOk(i)
    \/ \E i \in 1..Len(dom) : S_ClosePageThrows(i)

-----------------------------------------------------------------------------
(* handleInfiniteScroll (index.js:268-288, server.js:195-214) *)

\* No call of handleInfiniteScroll is being followed.
NoScroll == [pc |-> "none"]

\* const maxScrolls = 3;
MaxScrolls == 3

\* handleInfiniteScroll(page) has been called and waits for
\* page.evaluate('document.body.scrollHeight').  measured is the list of the
\* heights read so far, scrolls the number of window.scrollTo calls made.
ScrollCalled ==
    [ pc             |-> "first",
      lastHeight     |-> 0,
      scrollAttempts |-> 0,
      scrolls        |-> 0,
      measured       |-> <<>>,
      caught         |-> FALSE ]

\* while (scrollAttempts < maxScrolls): the loop is entered again, up to the
\* await of the scrollTo call, or left, the function returning.
LoopTest(s) ==
    IF s.scrollAttempts < MaxScrolls THEN [s EXCEPT !.pc = "scrollTo"]
    ELSE [s EXCEPT !.pc = "returned"]

\* if (newHeight === lastHeight) break;
HeightStable(newHeight, lastHeight) == newHeight = lastHeight

\* let lastHeight = await page.evaluate('document.body.scrollHeight');
Sc_FirstHeight ==
    /\ scroll.pc = "first"
    /\ \E h \in 1..MaxHeight :
          scroll' = LoopTest([scroll EXCEPT !.lastHeight = h,
                                            !.measured = Append(@, h)])
    /\ UNCHANGED <<program, domains, runs, dismiss, threads, failures, wvars, cvars>>

\* await page.evaluate('window.scrollTo(0, document.body.scrollHeight)');
\* await this.delay(2000);
Sc_ScrollTo ==
    /\ scroll.pc = "scrollTo"
    /\ scroll' = [scroll EXCEPT !.scrolls = @ + 1, !.pc = "newHeight"]
    /\ UNCHANGED <<program, domains, runs, dismiss, threads, failures, wvars, cvars>>

\* let newHeight = await page.evaluate('document.body.scrollHeight');
\* if (newHeight === lastHeight) break; lastHeight = newHeight; scrollAttempts++;
Sc_NewHeight ==
    /\ scroll.pc = "newHeight"
    /\ \E newHeight \in 1..MaxHeight :
          LET s == [scroll EXCEPT !.measured = Append(@, newHeight)]
          IN  scroll' = IF HeightStable(newHeight, scroll.lastHeight)
                        THEN [s EXCEPT !.pc = "returned"]
                        ELSE LoopTest([s EXCEPT !.lastHeight = newHeight,
                                                !.scrollAttempts = @ + 1])
    /\ UNCHANGED <<program, domains, runs, dismiss, threads, failures, wvars, cvars>>

\* A page.evaluate call rejects: catch (error) { console.error(..); }, and
\* the function returns.
Sc_EvaluateThrows ==
    /\ scroll.pc \in {"first", "scrollTo", "newHeight"}
    /\ scroll' = [scroll EXCEPT !.pc = "returned", !.caught = TRUE]
    /\ UNCHANGED <<program, domains, runs, dismiss, threads, failures, wvars, cvars>>

ScrollNext == Sc_FirstHeight \/ Sc_ScrollTo \/ Sc_NewHeight \/ Sc_EvaluateThrows

-----------------------------------------------------------------------------
(* handleCookieConsent and handlePopups (server.js:216-237, 329-348) *)

\* No dismissal routine is being followed.
NoDismiss == [pc |-> "none"]

\* handleCookieConsent: commonSelectors
CommonSelectors ==
    << "#cookie-accept",
       ".cookie-consent-accept",
       "[data-testid=\"cookie-consent-accept\"]",
       "button[contains(text(), \"Accept\")]",
       ".accept-cookies",
       "#accept-cookies",
       ".cookie-accept-button" >>

\* handlePopups: popupSelectors
PopupSelectors ==
    << "[class*=\"popup\"] button[class*=\"close\"]",
       "[class*=\"modal\"] button[class*=\"close\"]",
       "button[aria-label=\"Close\"]",
       ".modal-close",
       ".popup-close",
       "[data-dismiss=\"modal\"]" >>

SelectorsOf(routine) ==
    IF routine = "handleCookieConsent" THEN CommonSelectors ELSE PopupSelectors

\* page.waitForSelector rejects at once on a selector that is no CSS:
\* button[contains(text(), "Accept")] is XPath put into an attribute selector.
CanMatch(selector) == selector # "button[contains(text(), \"Accept\")]"

\* The try block of handleCookieConsent ends with break; that of handlePopups
\* has no break.
BreaksAfterClick(routine) == routine = "handleCookieConsent"

\* The routine has been called on a page and waits for
\* page.waitForSelector(selector, {timeout: 5000}) on its first selector.
\* clicked lists the selectors on which page.click was done.
DismissCalled(routine) ==
    [ pc      |-> "waitForSelector",
      routine |-> routine,
      idx     |-> 1,
      clicked |-> <<>> ]

\* for (const selector of selectors): on to the next selector, or the loop
\* ends and the routine returns.
NextSelector(d) ==
    IF d.idx < Len(SelectorsOf(d.routine))
    THEN [d EXCEPT !.idx = d.idx + 1, !.pc = "waitForSelector"]
    ELSE [d EXCEPT !.pc = "returned"]

\* await page.waitForSelector(selector, {timeout: 5000}) found an element.
D_WaitResolves ==
    /\ dismiss.pc = "waitForSelector"
    /\ CanMatch(SelectorsOf(dismiss.routine)[dismiss.idx])
    /\ dismiss' = [dismiss EXCEPT !.pc = "click"]
    /\ UNCHANGED <<program, domains, runs, scroll, threads, failures, wvars, cvars>>

\* waitForSelector timed out or rejected the selector: catch (e) { continue; }
D_WaitRejects ==
    /\ dismiss.pc = "waitForSelector"
    /\ dismiss' = NextSelector(dismiss)
    /\ UNCHANGED <<program, domains, runs, scroll, threads, failures, wvars, cvars>>

\* await page.click(selector); await this.delay(1000); and then break, where
\* there is one.
D_ClickOk ==
    /\ dismiss.pc = "click"
    /\ LET d == [dismiss EXCEPT
                  !.clicked = Append(@, SelectorsOf(dismiss.routine)[dismiss.idx])]
       IN  dismiss' = IF BreaksAfterClick(d.routine)
                      THEN [d EXCEPT !.pc = "returned"]
                      ELSE NextSelector(d)
    /\ UNCHANGED <<program, domains, runs, scroll, threads, failures, wvars, cvars>>

\* page.click throws (the element went away): catch (e) { continue; }
D_ClickThrows ==
    /\ dismiss.pc = "click"
    /\ dismiss' = NextSelector(dismiss)
    /\ UNCHANGED <<program, domains, runs, scroll, threads, failures, wvars, cvars>>

DismissNext == D_WaitResolves \/ D_WaitRejects \/ D_ClickOk \/ D_ClickThrows

-----------------------------------------------------------------------------
(* The file run as a script: worker threads and the example usage *)

\* No run of the file as a script is being followed.
NoThreads == <<>>

\* const domains = ["https://www.flipkart.com", "https://www.myntra.com"];
ExampleDomains ==
    << <<"https://", "www.", "flipkart.com">>, <<"https://", "www.", "myntra.com">> >>

\* The main thread of "node index.js", before the file has run in it.
MainThread ==
    [ isMainThread |-> TRUE, workerData |-> <<>>, parent |-> 0,
      pc |-> "load", completed |-> 0 ]

\* new Worker(__filename, {workerData: {domain}}), made by thread t: a thread
\* that runs the same file from its first line.
NewThread(t, domain) ==
    [ isMainThread |-> FALSE, workerData |-> domain, parent |-> t,
      pc |-> "load", completed |-> 0 ]

\* if (!isMainThread) { (async () => { .. await crawlDomain(domain); .. })(); }
RunsWorkerEntry(thread) == ~thread.isMainThread

\* The example usage at the end of the file is inside no test of isMainThread:
\* it runs in every thread that runs the file.
RunsExampleUsage(thread) == TRUE

\* A thread runs the file: a worker thread starts crawlDomain on its domain,
\* and the example usage calls crawlDomains, which makes one worker for each
\* of the example domains.
T_RunFile(t) ==
    /\ program = "script"
    /\ threads[t].pc = "load"
    /\ LET spawned == IF RunsExampleUsage(threads[t])
                      THEN [k \in 1..Len(ExampleDomains) |-> NewThread(t, ExampleDomains[k])]
                      ELSE <<>>
       IN  /\ Len(threads) + Len(spawned) <= MaxThreads
           /\ threads' = [threads EXCEPT
                            ![t].pc = IF RunsWorkerEntry(threads[t])
                                      THEN "crawlDomain" ELSE "waiting"]
                         \o spawned
    /\ UNCHANGED <<program, domains, runs, scroll, dismiss, failures, wvars, cvars>>

\* crawlDomain(domain) returns in a worker thread:
\* parentPort.postMessage({domain, results})
T_PostMessage(t) ==
    /\ program = "script"
    /\ threads[t].pc = "crawlDomain"
    /\ threads' = [threads EXCEPT ![t].pc = "posted"]
    /\ UNCHANGED <<program, domains, runs, scroll, dismiss, failures, wvars, cvars>>

\* worker.on('message', ..) in the thread that made the worker: completed++
T_OnMessage(t) ==
    /\ program = "script"
    /\ threads[t].pc = "posted"
    /\ threads' = [threads EXCEPT ![t].pc = "reported",
                                  ![threads[t].parent].completed = @ + 1]
    /\ UNCHANGED <<program, domains, runs, scroll, dismiss, failures, wvars, cvars>>

ScriptNext ==
    \/ \E t \in 1..Len(threads) : T_RunFile(t)
    \/ \E t \in 1..Len(threads) : T_PostMessage(t)
    \/ \E t \in 1..Len(threads) : T_OnMessage(t)

-----------------------------------------------------------------------------
(* The specification *)

\* Nothing has run yet.
NothingRun ==
    /\ failures = 0
    /\ cpc = "start"
    /\ browserOpen = FALSE
    /\ dom = <<>>
    /\ resultsMap = <<>>
    /\ failedUrls = <<>>
    /\ visitedUrls = {}
    /\ resultFile = NotWritten
    /\ failedFile = NotWritten
    /\ lastVerify = NoVerify
    /\ mpc = "start"
    /\ worker = <<>>
    /\ results = <<>>
    /\ completed = 0
    /\ resolveCalls = 0
    /\ report = <<>>
    /\ runs = 0

Init ==
    /\ program \in {"workers", "parallel", "sequential"}
    /\ \/ program = "workers" /\ domains \in WorkerDomainLists
       \/ /\ program \in {"parallel", "sequential"}
          /\ domains \in {ConstructedDomains(raw) : raw \in RawDomainLists}
    /\ scroll = NoScroll
    /\ dismiss = NoDismiss
    /\ threads = NoThreads
    /\ NothingRun

Next == WorkersNext \/ ParallelNext \/ SequentialNext

Spec == Init /\ [][Next]_vars

\* handleInfiniteScroll on its own, called on a page whose height the
\* environment chooses at every measurement.
ScrollInit ==
    /\ program = "handleInfiniteScroll"
    /\ domains = <<>>
    /\ scroll = ScrollCalled
    /\ dismiss = NoDismiss
    /\ threads = NoThreads
    /\ NothingRun

ScrollSpec == ScrollInit /\ [][ScrollNext]_vars

\* A dismissal routine on its own, called on a page on which the environment
\* decides which selectors match.
DismissInit ==
    /\ program \in {"handleCookieConsent", "handlePopups"}
    /\ domains = <<>>
    /\ scroll = NoScroll
    /\ dismiss = DismissCalled(program)
    /\ threads = NoThreads
    /\ NothingRun

DismissSpec == DismissInit /\ [][DismissNext]_vars

\* The file run as a script: "node index.js".
ScriptInit ==
    /\ program = "script"
    /\ domains = ExampleDomains
    /\ scroll = NoScroll
    /\ dismiss = NoDismiss
    /\ threads = << MainThread >>
    /\ NothingRun

ScriptSpec == ScriptInit /\ [][ScriptNext]_vars

-----------------------------------------------------------------------------
(* Properties *)

Workers == 1..Len(worker)
Crawls  == 1..Len(dom)

Distinct(seq) == \A a, b \in 1..Len(seq) : seq[a] = seq[b] => a = b

NonDecreasing(depths) ==
    \A a, b \in 1..Len(depths) : a < b => depths[a] <= depths[b]

Depths(log) == [k \in 1..Len(log) |-> log[k].depth]
Urls(log)   == [k \in 1..Len(log) |-> log[k].url]

\* The report a finished run has emitted: the domains of its records, in
\* order.  crawlDomains resolves to an array of messages; the two
\* EcommerceCrawler classes write the entries of this.results to a file.
ReportEmitted ==
    \/ program = "workers" /\ mpc = "resolved"
    \/ program # "workers" /\ resultFile.written

ReportDomains ==
    IF program = "workers"
    THEN [k \in 1..Len(report) |-> report[k].domain]
    ELSE [k \in 1..Len(resultFile.content) |-> resultFile.content[k].key]

\* C1: every report that is emitted holds exactly one record for every
\* configured domain, also for a domain whose crawl crashed.
C1_OneRecordPerDomain ==
    ReportEmitted =>
        \A D \in Range(domains) :
            Cardinality({k \in 1..Len(ReportDomains) : ReportDomains[k] = D}) = 1

HasProductPattern(u) == \E pattern \in ProductPatterns : Includes(u, pattern)
InScope(u, base) == IsAbsolute(u) /\ Hostname(u) = Hostname(base)
ResolvedLinks(page, base) ==
    LET html == PageLinks(page)
    IN  {URLToString(html[k], base) : k \in {j \in 1..Len(html) : UrlParses(html[j], base)}}
RECURSIVE PagesWithin(_, _)
PagesWithin(base, k) ==
    IF k = 0 THEN {Canonical(base)}
    ELSE LET prev == PagesWithin(base, k - 1)
         IN  prev \cup
             UNION { {Canonical(l) : l \in {m \in ResolvedLinks(pg, base) :
                                              InScope(m, base) /\ ~HasProductPattern(m)}}
                     : pg \in prev }
ExpectedConfirmed(base, ceiling) ==
    UNION { {l \in ResolvedLinks(pg, base) : InScope(l, base) /\ HasProductPattern(l)}
            : pg \in PagesWithin(base, ceiling) }

\* C5: when a domain's crawl has ended and no fetch failed, its confirmed set
\* is exactly the set of product links of the base page and of the in-scope
\* non-product pages within the depth ceiling, site-relative links included.
C5_ConfirmedIsReachableProducts ==
    \A i \in Workers :
        (worker[i].pc \in {"posted", "reported"} /\ worker[i].fetchFailed = {})
        => Range(worker[i].productURLs)
             = ExpectedConfirmed(worker[i].domain, DefaultMaxDepth)

\* The domain's set in a Map, empty if the domain is not registered.
SetOf(m, d) == IF MapHas(m, d) THEN Range(MapGet(m, d)) ELSE {}

\* A step that registers a domain (this.results.set / this.failedUrls.set).
Registers == \E i \in Crawls : dom[i].pc = "setup" /\ dom'[i].pc # "setup"

\* C6: in server.js, a verification that fails puts the link into its
\* domain's failed set and leaves the confirmed sets as they were; and a failed
\* set loses a URL only when its domain is registered again.
C6_FailedVerificationRecorded ==
    [][ /\ (lastVerify'.n = lastVerify.n + 1 /\ ~lastVerify'.verdict)
           => /\ lastVerify'.link \in SetOf(failedUrls', lastVerify'.domain)
              /\ resultsMap' = resultsMap
        /\ ~Registers
           => \A j \in 1..Len(failedUrls) :
                 SetOf(failedUrls, failedUrls[j].key) \subseteq
                    SetOf(failedUrls', failedUrls[j].key) ]_vars

\* A "-p-" link was verified on a rendered page without a price indicator: it
\* is in the failed set and not in the confirmed set.
C6_Witness ==
    /\ lastVerify.n > 0 /\ lastVerify.navOk /\ ~lastVerify.signals["price"]
    /\ Includes(lastVerify.link, <<"-p-">>)
    /\ lastVerify.link \in SetOf(failedUrls, lastVerify.domain)
    /\ lastVerify.link \notin SetOf(resultsMap, lastVerify.domain)

\* C7: the verdict of isValidProductPage on a page that was rendered is
\* price AND (addToCart OR buy) AND (title OR image OR metadata).
C7_VerdictIsThePolicy ==
    (lastVerify.n > 0 /\ lastVerify.navOk)
    => (lastVerify.verdict <=> VerificationPolicy(lastVerify.signals))

\* The URLs whose navigation threw, and the failed set they should be in.
\* crawlDomains' workers and index.js's EcommerceCrawler keep no failed set.
NavFailedUrls(i) ==
    IF program = "workers" THEN worker[i].fetchFailed ELSE dom[i].navFailed
FailedSet(i) ==
    IF program = "sequential" THEN SetOf(failedUrls, dom[i].domain) ELSE {}

C9_OneDomainAtATime ==
    program = "sequential" =>
        /\ Cardinality({i \in Crawls : dom[i].pc \notin {"idle", "done", "rejected"}}) <= 1
        /\ Cardinality({i \in Crawls : dom[i].pageOpen}) <= 1
        /\ \A i \in Crawls :
              dom[i].pc # "idle"
              => \A j \in 1..(i - 1) : dom[j].pc = "done" /\ ~dom[j].pageOpen

\* The second domain is being crawled after the first one has ended.
C9_Witness ==
    /\ program = "sequential" /\ Len(dom) = 2
    /\ dom[1].pc = "done" /\ dom[1].fetchLog # <<>>
    /\ dom[2].pc = "goto" /\ dom[2].pageOpen

\* C10: resolve(results) is called at most once, and only when every worker
\* has reported (its message or its error handled); the counter counts the
\* reports; and saveResults of index.js's crawl() has run only if every
\* crawlDomain has ended.
C10_CompletionAfterAll ==
    /\ resolveCalls <= 1
    /\ (resolveCalls > 0 <=> mpc = "resolved")
    /\ completed = Cardinality({i \in Workers : worker[i].pc \in {"reported", "failed"}})
    /\ mpc = "resolved"
       => /\ domains # <<>>
          /\ \A i \in Workers : worker[i].pc \in {"reported", "failed"}
    /\ (program = "parallel" /\ cpc \in {"saved", "done"})
       => /\ resultFile.written
          /\ \A i \in Crawls : dom[i].pc = "done"

\* crawlDomains resolved after one worker posted its message and the other
\* raised an error.
C10_Witness ==
    /\ mpc = "resolved" /\ Len(worker) = 2
    /\ \E i, j \in Workers : worker[i].pc = "reported" /\ worker[j].pc = "failed"

\* C11: the records of every emitted report are in configuration order: of
\* two records, the earlier one belongs to a domain configured before the
\* domain of the later one.
C11_ReportInConfigurationOrder ==
    ReportEmitted =>
        \A a, b \in 1..Len(ReportDomains) :
            a < b => \E x, y \in 1..Len(domains) :
                        /\ x < y
                        /\ domains[x] = ReportDomains[a]
                        /\ domains[y] = ReportDomains[b]

\* C12: whenever crawl() has ended, by returning or by throwing, every
\* configured domain's crawl was started and saveResults has written the
\* report.
C12_ReportAlwaysWritten ==
    (program # "workers" /\ cpc \in {"done", "rejected"})
    => /\ resultFile.written
       /\ \A i \in Crawls : dom[i].pc # "idle"

\* The host of an absolute URL is the target domain or a subdomain of it,
\* "www." set aside.
HostInScope(url, target) ==
    LET host == Hostname(url)
        dom0 == Hostname(target)
    IN  IsAbsolute(url) /\ (host = dom0 \/ EndsWith(host, <<".">> \o dom0))

\* C13: every URL that a domain's crawl enqueues, fetches or records as a
\* product has the target domain, or a subdomain of it, as its host.
C13_OnlyInScopeUrls ==
    /\ \A i \in Workers :
          \A u \in Range(worker[i].pushLog) \cup Range(Urls(worker[i].fetchLog))
                    \cup Range(worker[i].productURLs) :
              HostInScope(u, worker[i].domain)
    /\ \A i \in Crawls :
          \A u \in Range(Urls(dom[i].fetchLog)) \cup SetOf(resultsMap, dom[i].domain) :
              HostInScope(u, BaseUrl(dom[i].domain))

\* The domains registered by server.js's crawlDomain, in registration order.
Registered == [j \in 1..Len(failedUrls) |-> failedUrls[j].key]

\* C14: failed.json is written by saveFailedUrls only, and only if some
\* domain's failed set is not empty; once saveFailedUrls has run without
\* writing it, every failed set is empty; the file holds exactly one record
\* for each registered domain, with that domain's failed set, the domains
\* with an empty failed set included.
C14_FailedFileWhenNeeded ==
    LET records == failedFile.content
    IN  /\ failedFile.written
           => /\ cpc \in {"savedFailed", "done"}
              /\ \E j \in 1..Len(records) : records[j].failedUrls # <<>>
              /\ [j \in 1..Len(records) |-> records[j].domain] = Registered
              /\ Distinct(Registered)
              /\ \A j \in 1..Len(records) :
                    Range(records[j].failedUrls) = SetOf(failedUrls, records[j].domain)
        /\ (program = "sequential" /\ cpc \in {"savedFailed", "done"} /\ ~failedFile.written)
           => \A j \in 1..Len(failedUrls) : failedUrls[j].val = <<>>

\* failed.json was written with two records: e.com with an empty failed set
\* and b.com with a failed URL.
C14_Witness ==
    /\ failedFile.written /\ Len(failedFile.content) = 2
    /\ \E j \in 1..2 : failedFile.content[j].failedUrls = <<>>
    /\ \E j \in 1..2 : failedFile.content[j].failedUrls # <<>>

\* C15: on a site that answers every request, a later crawl() on the same
\* EcommerceCrawler instance writes, for every configured domain, the same
\* confirmed set as the crawl() before it wrote.
C15_RerunSameConfirmed ==
    [][ (resultFile.written /\ failures' = 0)
        => \A D \in Range(domains) :
              SetOf(resultFile'.content, D) = SetOf(resultFile.content, D) ]_vars

\* C16: an href that new URL() rejects never ends a domain's crawl: no worker
\* leaves crawlDomain by an exception, and none ends without its message.
C16_MalformedHrefOnlyDiscarded ==
    \A i \in Workers : worker[i].pc \notin {"threw", "error", "exited", "failed"}

\* C17: every renderer resource is released by the operation that opened it:
\* no attempt of fetchHTML leaves a browser open, a crawlDomain call that has
\* returned has closed its page, and a crawl() that has ended has closed its
\* browser.
C17_ResourcesReleased ==
    /\ \A i \in Workers : worker[i].openBrowsers = 0
    /\ \A i \in Crawls : dom[i].pc = "done" => ~dom[i].pageOpen
    /\ (program # "workers" /\ cpc \in {"done", "rejected"}) => ~browserOpen

\* C18: the confirmed and the failed set of a domain's crawl are changed by
\* that crawl only: a step in which a crawlDomain call does nothing leaves the
\* sets of its domain as they are.
C18_OtherCrawlsLeaveStateAlone ==
    [][ \A i \in Crawls :
           (Len(dom') = Len(dom) /\ dom'[i] = dom[i])
           => /\ SetOf(resultsMap', dom[i].domain) = SetOf(resultsMap, dom[i].domain)
              /\ SetOf(failedUrls', dom[i].domain) = SetOf(failedUrls, dom[i].domain) ]_vars

\* The crawlDomain calls for domain D that have a navigation in flight.
Navigating(D) ==
    {i \in Crawls : dom[i].domain = D /\ dom[i].pc \in {"goto", "verify"}}

\* C19: at no moment are two navigations for the same domain in flight, in
\* server.js and under Promise.all: a crawlDomain call waits for at most one
\* navigation, made on the page it opened itself, every processUrl call below
\* the innermost one waiting for that one to return; and of the calls for one
\* domain at most one is navigating.
C19_OneNavigationPerDomain ==
    /\ \A i \in Crawls :
          /\ dom[i].pc \in {"goto", "verify"}
             => /\ dom[i].pageOpen
                /\ dom[i].stack # <<>>
                /\ dom[i].stack[Len(dom[i].stack)].loaded = (dom[i].pc = "verify")
          /\ \A k \in 1..(Len(dom[i].stack) - 1) : dom[i].stack[k].loaded
    /\ \A D \in Range(domains) : Cardinality(Navigating(D)) <= 1

\* Under Promise.all two domains are navigating at the same moment, one of
\* them in a processUrl call made by another processUrl call.
C19_Witness ==
    /\ program = "parallel"
    /\ \E i, j \in Crawls :
          /\ dom[i].domain # dom[j].domain
          /\ dom[i].pc = "goto" /\ dom[j].pc = "goto"
          /\ Len(dom[i].stack) >= 2

\* C20: handleInfiniteScroll scrolls at most 3 times; it does not scroll
\* again after the first measurement in which the height did not grow; on a
\* page whose height is stable from the start it scrolls exactly once; and an
\* error of page.evaluate is caught, the function returning.
C20_ScrollStopsWhenNotGrowing ==
    /\ scroll.scrolls <= MaxScrolls
    /\ \A k \in 1..(Len(scroll.measured) - 1) :
          scroll.measured[k + 1] <= scroll.measured[k] => scroll.scrolls <= k
    /\ (scroll.pc = "returned" /\ ~scroll.caught /\ scroll.measured[2] = scroll.measured[1])
       => scroll.scrolls = 1
    /\ scroll.caught => scroll.pc = "returned"

\* C21: a dismissal routine clicks at most one target per call, and returns
\* once it has clicked one.
C21_AtMostOneClickPerRoutine ==
    /\ Len(dismiss.clicked) <= 1
    /\ Len(dismiss.clicked) = 1 => dismiss.pc = "returned"



\* C22: every page.goto of a crawl directly follows a randomized delay, so that
\* no two navigations are issued without such a delay between them.
C22_EveryNavigationPaced ==
    program = "sequential" => \A i \in 1..Len(dom) : dom[i].sinceDelay <= 1


\* C23: hrefs that differ only in their fragment, and the seed URL and a link
\* to the same page, share one visited key: no page is fetched twice by a worker.
C23_PageFetchedOnce ==
    \A i \in Workers :
        \A a, b \in 1..Len(worker[i].fetchLog) :
            Canonical(worker[i].fetchLog[a].url) = Canonical(worker[i].fetchLog[b].url)
            => a = b


\* C24: in server.js's crawler the confirmed set and the failed set of a domain
\* never share a URL, whatever the renderer shows on the verifications of a
\* link that is selected more than once.
C24_ConfirmedFailedDisjoint ==
    program = "sequential" =>
        \A D \in Range(domains) :
            SetOf(resultsMap, D) \cap SetOf(failedUrls, D) = {}

\* A link selected twice on a page was verified twice: the page rendered for
\* the first verification had the signals the policy asks for, the page
\* rendered for the second had not, and the link is in the failed set only.
C24_Witness ==
    /\ program = "sequential"
    /\ lastVerify.n >= 2 /\ lastVerify.metBefore
    /\ lastVerify.navOk /\ ~VerificationPolicy(lastVerify.signals)
    /\ lastVerify.link \in SetOf(failedUrls, lastVerify.domain)
    /\ lastVerify.link \notin SetOf(resultsMap, lastVerify.domain)


\* C25: every URL of a domain's confirmed set has one of the configured
\* product patterns and passes the scope test of its domain.
C25_ConfirmedMatchesPattern ==
    /\ \A i \in Workers :
          \A k \in 1..Len(worker[i].productURLs) :
              IsValidProductURL(worker[i].productURLs[k], worker[i].domain)
    /\ program = "parallel" =>
          \A D \in Range(domains) : \A u \in SetOf(resultsMap, D) :
              P_IsProductUrl(u) /\ IsSameDomain(u, D)
    /\ program = "sequential" =>
          \A D \in Range(domains) : \A u \in SetOf(resultsMap, D) :
              IsProductUrl(u) /\ IsSameDomain(u, D)


\* C26: crawlDomains resolves for every list of domains, the empty list
\* included, once every worker it spawned has posted its message or raised an
\* error: when crawlDomains has run and the message or the error of every
\* worker has been handled, so that nothing is left to happen, the promise is
\* resolved.
C26_ResolvedOnceWorkersHandled ==
    ( /\ program = "workers" /\ mpc # "start"
      /\ \A i \in Workers : worker[i].pc \in {"reported", "failed"} )
    => mpc = "resolved"


\* C27: a run of the worker-thread variant creates one worker per configured
\* domain and no other: every worker is made by the main thread, and the
\* number of workers ever created is the number of configured domains.
C27_OneWorkerPerDomain ==
    program = "script" =>
        /\ \A t \in 1..Len(threads) :
              ~threads[t].isMainThread => threads[threads[t].parent].isMainThread
        /\ Cardinality({t \in 1..Len(threads) : ~threads[t].isMainThread})
             <= Len(domains)


\* C28: every domain crawl ends with its work list used up: a crawlDomain call
\* of a worker leaves its loop only with an empty queue, and a crawlDomain call
\* of the class is past processUrl only when every processUrl call has returned.
C28_CrawlEndsWithQueueEmptied ==
    /\ \A i \in Workers :
          worker[i].pc \notin {"loop", "fetch"} => worker[i].queue = <<>>
    /\ program = "parallel" =>
          \A i \in Crawls :
              dom[i].pc \in {"closing", "done", "rejected"} => dom[i].stack = <<>>

=============================================================================
